---- MODULE Spec2Model ----
(***************************************************************************)
(* Model of the retrieval-identify-reformat pipeline `reportChain`         *)
(* (src/src/controllers/initializeController.ts, lines 57-291).            *)
(*                                                                         *)
(* One run of reportChain is a record `run`; every handler of the          *)
(* RunnableSequence `debugChain` is an operator on that record and one     *)
(* action of the state machine.  The vector index and the language model   *)
(* are external: their answers are drawn from bounded sets.                *)
(*                                                                         *)
(* Text is a sequence of tokens <<kind, chars>>, so that JSON.parse and    *)
(* template interpolation are computed rather than assumed.                *)
(***************************************************************************)
EXTENDS Integers, Sequences, FiniteSets, TLC

\* ------------------------------------------------------------------ bounds
MaxDocs == 2      \* longest document array passed to a run
MaxHits == 2      \* most vectors the index holds that match a query

\* --------------------------------------------------------- program constants
TopK == 5         \* pineconeStore.asRetriever(5)

\* ------------------------------------------------------------- JS values
\* A JavaScript scalar: a string, undefined or null.
Undefined == <<"undefined", "">>
Null == <<"null", "">>
Str(s) == <<"string", s>>

IsString(v) == v[1] = "string"

\* JavaScript truthiness of a scalar: undefined, null and "" are falsy.
Truthy(v) == IsString(v) /\ v[2] # ""

\* a || b
OrElse(a, b) == IF Truthy(a) THEN a ELSE b

\* a == b (loose equality) on strings, undefined and null:
\* undefined and null are equal to each other and to nothing else.
LooseEq(a, b) ==
  IF IsString(a) /\ IsString(b) THEN a[2] = b[2]
  ELSE ~IsString(a) /\ ~IsString(b)

\* String(v), as a template literal or a string concatenation renders v.
ToText(v) == IF IsString(v) THEN v[2] ELSE v[1]

\* ------------------------------------------------------------- tokens
P(c) == <<"punct", c>>    \* one of { } : ,
S(s) == <<"str", s>>      \* a double-quoted JSON string
W(w) == <<"word", w>>     \* any other run of characters

\* ------------------------------------------------------------- JSON.parse
\* The result of JSON.parse: either a SyntaxError (ok = FALSE) or a value,
\* which is an object (props: its members in order), null or a string.
ParseError == [ok |-> FALSE, kind |-> "none", props |-> <<>>, str |-> ""]
ParsedNull == [ok |-> TRUE, kind |-> "null", props |-> <<>>, str |-> ""]
ParsedString(s) == [ok |-> TRUE, kind |-> "string", props |-> <<>>, str |-> s]
ParsedObject(ps) == [ok |-> TRUE, kind |-> "object", props |-> ps, str |-> ""]

IsScalarToken(t) == t[1] = "str" \/ t = W("null")

ScalarOf(t) == IF t[1] = "str" THEN Str(t[2]) ELSE Null

\* members of an object body: "key" : scalar ( , "key" : scalar )*
RECURSIVE ParseMembers(_, _)
ParseMembers(b, acc) ==
  IF Len(b) >= 3 /\ b[1][1] = "str" /\ b[2] = P(":") /\ IsScalarToken(b[3])
  THEN LET acc2 == Append(acc, <<b[1][2], ScalarOf(b[3])>>)
       IN IF Len(b) = 3 THEN ParsedObject(acc2)
          ELSE IF Len(b) > 4 /\ b[4] = P(",")
               THEN ParseMembers(SubSeq(b, 5, Len(b)), acc2)
               ELSE ParseError
  ELSE ParseError

\* JSON.parse on the grammar  value := null | "string" | { members }
\* (flat objects with string or null members; every reply the model draws
\* is inside or outside this grammar exactly as it is inside or outside JSON).
JSONParse(t) ==
  IF Len(t) = 1 /\ t[1] = W("null") THEN ParsedNull
  ELSE IF Len(t) = 1 /\ t[1][1] = "str" THEN ParsedString(t[1][2])
  ELSE IF Len(t) >= 2 /\ t[1] = P("{") /\ t[Len(t)] = P("}")
       THEN IF Len(t) = 2 THEN ParsedObject(<<>>)
            ELSE ParseMembers(SubSeq(t, 2, Len(t) - 1), <<>>)
  ELSE ParseError

\* does the parsed object have the member `key`
HasProp(v, key) ==
  v.kind = "object" /\ \E i \in 1..Len(v.props) : v.props[i][1] = key

\* v?.key : undefined on null and on strings, the last member named key
\* of an object (JSON.parse keeps the last duplicate), undefined if none.
GetProp(v, key) ==
  IF HasProp(v, key)
  THEN LET I == {i \in 1..Len(v.props) : v.props[i][1] = key}
           last == CHOOSE i \in I : \A j \in I : j <= i
       IN v.props[last][2]
  ELSE Undefined

\* ------------------------------------------------------------- templates
\* A prompt template is a sequence of nodes: literal text or a {variable}.
Lit(s) == <<"text", s>>
Var(n) == <<"var", n>>

\* PromptTemplate.fromTemplate('What is {companyName}s {reportType} for
\* their {docType} statement?')
searchTemplate ==
  << Lit("What is "), Var("companyName"), Lit("s "), Var("reportType"),
     Lit(" for their "), Var("docType"), Lit(" statement?") >>

\* __idImprovedTemplate, the disambiguation prompt
idImprovedTemplate ==
  << Lit("identify the "), Var("reportType"), Lit(" from "),
     Var("companyName"), Lit("'s "), Var("docType"),
     Lit(". Retrieved documents: "), Var("formattedDocs"),
     Lit(" Return ONLY the JSON {element_id, filename}") >>

\* __htmlFormattingTemplate, the reformatting prompt
htmlFormattingTemplate ==
  << Lit("improve the formatting, staying accurate to the data: "),
     Var("tableContent"),
     Lit(" Return ONLY the JSON {reformatted_content}") >>

\* The variables a template names.
InputVariables(template) ==
  {template[i][2] : i \in {j \in 1..Len(template) : template[j][1] = "var"}}

\* template.format(values): values maps names to rendered text (a sequence
\* of text pieces).  A variable that is not a key of values is an error;
\* a key whose value is undefined is rendered, not rejected.
RECURSIVE Interpolate(_, _)
Interpolate(template, values) ==
  IF template = <<>> THEN <<>>
  ELSE LET node == Head(template)
           piece == IF node[1] = "var" THEN values[node[2]] ELSE <<node[2]>>
       IN piece \o Interpolate(Tail(template), values)

Format(template, values) ==
  IF InputVariables(template) \subseteq DOMAIN values
  THEN [ok |-> TRUE, text |-> Interpolate(template, values)]
  ELSE [ok |-> FALSE, text |-> <<>>]

\* ------------------------------------------------------------- inputs
TableA == "<table><tr><td>Total Assets</td><td>500</td></tr></table>"
TableB == "<table><tr><td>Net Income</td><td>42</td></tr>"

\* Elements of a document array, as GCSService.getDocuments builds them:
\* metadata.element_id and metadata.text_as_html, either of which the
\* ingested JSON may lack.
ElementPool ==
  { [element_id |-> Str("e1"), text_as_html |-> Str(TableA)],
    [element_id |-> Str("e1"), text_as_html |-> Str(TableB)],
    [element_id |-> Str("e2"), text_as_html |-> Str("")],
    [element_id |-> Str("e2"), text_as_html |-> Undefined],
    [element_id |-> Undefined, text_as_html |-> Str(TableB)] }

RECURSIVE SeqsUpTo(_, _)
SeqsUpTo(S_, n) ==
  IF n = 0 THEN {<<>>}
  ELSE LET shorter == SeqsUpTo(S_, n - 1)
       IN shorter \cup {Append(s, x) : s \in {q \in shorter : Len(q) = n - 1}, x \in S_}

DocArrays == SeqsUpTo(ElementPool, MaxDocs)

DocConfigs ==
  { [docName |-> "hood-10Q.pdf.json", companyName |-> "Robinhood",
     docType |-> "10-Q", reportType |-> "Balance Sheet"] }

\* Vectors of the index, with the metadata uploadUnstructuredDocuments
\* stores; an old index entry may lack any of the fields.
CandidatePool ==
  { [element_id |-> Str("e1"), filename |-> Str("f.pdf"),
     text_preview |-> Str("Total Assets 500")],
    [element_id |-> Str("e404"), filename |-> Str("g.pdf"),
     text_preview |-> Str("Net Income 42")],
    [element_id |-> Undefined, filename |-> Undefined,
     text_preview |-> Undefined] }

Min(a, b) == IF a < b THEN a ELSE b

\* What the retriever can answer: at most TopK of the matching vectors.
RetrievalResults == SeqsUpTo(CandidatePool, Min(TopK, MaxHits))

\* Failures of an external call (index or model).
UpstreamErrors == {"UpstreamTimeout", "UpstreamUnavailable"}

\* Replies of the language model to the disambiguation prompt.
SelectionJSON(id) ==
  << P("{"), S("element_id"), P(":"), S(id), P(","),
     S("filename"), P(":"), S("f.pdf"), P("}") >>

SelectionReplies ==
  { SelectionJSON("e1"), SelectionJSON("e2"), SelectionJSON("e404"),
    << P("{"), S("filename"), P(":"), S("f.pdf"), P("}") >>,
    << P("{"), S("element_id"), P(":"), W("null"), P("}") >>,
    << W("null") >>,
    << W("The"), W("answer"), W("is") >> \o SelectionJSON("e1"),
    << W("fence-json") >> \o SelectionJSON("e1") \o << W("fence") >>,
    << >> }

\* Replies of the language model to the reformatting prompt.
ReformatJSON(c) ==
  << P("{"), S("reformatted_content"), P(":"), S(c), P("}") >>

ReformatReplies ==
  { ReformatJSON(TableA), ReformatJSON(""),
    << P("{"), S("original_content"), P(":"), S(TableA), P(","),
       S("reformatted_content"), P(":"), S(TableA), P("}") >>,
    << P("{"), P("}") >>,
    << W("null") >>,
    << W("Here"), W("is"), W("the"), W("table") >>,
    << >> }

\* ------------------------------------------------------------- one run
VARIABLES
  run,       \* the invocation of reportChain under way
  other,     \* a second invocation: concurrent with run, or finished before it
  stub,      \* what stubbed clients have answered so far, by request
  docArray,  \* the process-wide `const docArray = []` of the document store
  req,       \* the HTTP request being handled
  handled,   \* how many requests the server has taken
  poll,      \* the call of pollForResult under way
  upload,    \* the call of uploadUnstructuredDocuments under way
  pineconeIndex  \* the Pinecone index: the batches upserted into it, in order

vars == <<run, other, stub, docArray, req, handled, poll, upload, pineconeIndex>>

\* everything a handler of `run` leaves alone
outside == <<other, stub, docArray, req, handled, poll, upload, pineconeIndex>>

\* The handlers of debugChain in the order RunnableSequence.from lists
\* them, between the set-up of the retriever and the final JSON.parse.
Order ==
  << "setup", "step1", "step2", "step3", "step4", "step5", "step6",
     "step7", "step8", "step9", "step10", "final", "returned" >>

IndexOf(s) == CHOOSE i \in 1..Len(Order) : Order[i] = s

\* A sequence that drops the handler after step 6.
SequenceNextSkipsResolve(s) ==
  IF s = "step6" THEN "step8" ELSE Order[IndexOf(s) + 1]

\* RunnableSequence.invoke: the handler that runs once handler s has
\* returned is the next of the list, fed with the value s returned.
SequenceNext(s) == Order[IndexOf(s) + 1]

NoError == [step |-> "", name |-> ""]
NoReply == [content |-> <<>>]

\* reportChain(docArray, docConfig) just called.
NewRun(docs, config) ==
  [ docArray |-> docs, docConfig |-> config,
    pc |-> "setup",
    started |-> <<>>,          \* handlers entered, in order
    completed |-> <<>>,        \* handlers that returned, in order
    query |-> <<>>,            \* step 1: the search query
    docs |-> <<>>,             \* step 2: the retrieved candidates
    idContext |-> <<>>,        \* step 3: values of the disambiguation prompt
    idPrompt |-> <<>>,         \* step 4
    llmResponse |-> NoReply,   \* step 5
    resultJSON |-> ParseError, \* step 6
    matchedDoc |-> 0,          \* step 7: index found in docArray, 0 if none
    tableContext |-> [tableContent |-> Undefined],
    htmlPrompt |-> <<>>,       \* step 8
    htmlResponse |-> NoReply,  \* step 9
    result |-> <<>>,           \* step 10: the text debugChain returns
    jsonResult |-> ParseError, \* the value reportChain returns
    raised |-> NoError,        \* the error a handler threw, and where
    error |-> NoError,         \* the error reportChain rejects with
    retrieverCalls |-> 0, llmCalls |-> 0 ]

Enter(r, s) == [r EXCEPT !.started = Append(@, s)]

\* handler s returns: the sequence moves on
Return(r, s) ==
  [r EXCEPT !.completed = Append(@, s), !.pc = SequenceNext(s)]

\* A catch block that throws a new error of its own in place of the caught one.
CatchWraps(r) ==
  [r EXCEPT !.pc = "thrown",
            !.error = [step |-> "reportChain", name |-> "PipelineError"]]

\* A catch block that logs the error and returns an empty result.
CatchSwallows(r) == [r EXCEPT !.pc = "returned", !.jsonResult = ParsedObject(<<>>)]

\* catch (error) { console.error(...); throw error; }
Catch(r) == [r EXCEPT !.pc = "thrown", !.error = r.raised]

\* handler s throws: nothing catches inside the sequence, so the error
\* reaches the catch block of reportChain.
Throw(r, s, name) == Catch([r EXCEPT !.raised = [step |-> s, name |-> name]])

\* new PineconeService().createStore(): throws when no index is configured
\* or when the index cannot be reached.
SetupOutcomes == {"ok", "NoPineconeIndex"} \cup UpstreamErrors

Setup(r, outcome) ==
  LET r1 == Enter(r, "setup")
  IN IF outcome = "ok" THEN Return(r1, "setup") ELSE Throw(r1, "setup", outcome)

\* Step 1: format the search query
Step1(r) ==
  LET r1 == Enter(r, "step1")
      formatted == Format(searchTemplate,
                     [companyName |-> <<r.docConfig.companyName>>,
                      reportType |-> <<r.docConfig.reportType>>,
                      docType |-> <<r.docConfig.docType>>])
  IN IF formatted.ok
     THEN Return([r1 EXCEPT !.query = formatted.text], "step1")
     ELSE Throw(r1, "step1", "MissingValue")

\* Step 2: retrieve documents.  answer is what vectorStoreRetriver.invoke
\* does: [ok |-> TRUE, docs |-> ...] or [ok |-> FALSE, name |-> error].
Step2(r, answer) ==
  LET r1 == [Enter(r, "step2") EXCEPT !.retrieverCalls = @ + 1]
  IN IF answer.ok
     THEN Return([r1 EXCEPT !.docs = answer.docs], "step2")
     ELSE Throw(r1, "step2", answer.name)

\* One block of the formatted documents.
FormatDoc(doc, index) ==
  << "Document ", ToString(index), ": - Element ID: ",
     ToText(OrElse(doc.element_id, Str("unknown"))),
     " - Source/Filename: ", ToText(OrElse(doc.filename, Str("unknown"))),
     " - Content snippet: ", ToText(doc.text_preview), "..." >>

\* blocks.join('\n\n')
RECURSIVE Join(_)
Join(blocks) ==
  IF blocks = <<>> THEN <<>>
  ELSE IF Len(blocks) = 1 THEN blocks[1]
  ELSE blocks[1] \o <<"\n\n">> \o Join(Tail(blocks))

\* Step 3: format documents for the template
Step3(r) ==
  LET r1 == Enter(r, "step3")
      formattedDocs == Join([i \in 1..Len(r.docs) |-> FormatDoc(r.docs[i], i)])
      context == [formattedDocs |-> formattedDocs,
                  reportType |-> <<r.docConfig.reportType>>,
                  companyName |-> <<r.docConfig.companyName>>,
                  docType |-> <<r.docConfig.docType>>]
  IN Return([r1 EXCEPT !.idContext = context], "step3")

\* Step 4: format the ID template with the formatted documents
Step4(r) ==
  LET r1 == Enter(r, "step4")
      formatted == Format(idImprovedTemplate, r.idContext)
  IN IF formatted.ok
     THEN Return([r1 EXCEPT !.idPrompt = formatted.text], "step4")
     ELSE Throw(r1, "step4", "MissingValue")

\* A step 5 that calls the model a second time when the first call fails.
Step5Retries(r, answer) ==
  LET r1 == [Enter(r, "step5") EXCEPT !.llmCalls = @ + 1]
  IN IF answer.ok
     THEN Return([r1 EXCEPT !.llmResponse = [content |-> answer.content]], "step5")
     ELSE Throw([r1 EXCEPT !.llmCalls = @ + 1], "step5", answer.name)

\* Step 5: call the LLM.  answer is what llm.invoke does:
\* [ok |-> TRUE, content |-> tokens] or [ok |-> FALSE, name |-> error].
Step5(r, answer) ==
  LET r1 == [Enter(r, "step5") EXCEPT !.llmCalls = @ + 1]
  IN IF answer.ok
     THEN Return([r1 EXCEPT !.llmResponse = [content |-> answer.content]], "step5")
     ELSE Throw(r1, "step5", answer.name)

\* StringOutputParser.invoke(message): the text of the message
OutputParser(message) == message.content

\* A step 6 that falls back to the top-ranked candidate when the reply
\* does not parse.
Step6FallsBack(r) ==
  LET r1 == Enter(r, "step6")
      resultJSON == JSONParse(OutputParser(r.llmResponse))
      fallback == ParsedObject(<< <<"element_id", r.docs[1].element_id>> >>)
  IN IF resultJSON.ok
     THEN Return([r1 EXCEPT !.resultJSON = resultJSON], "step6")
     ELSE IF r.docs # <<>>
          THEN Return([r1 EXCEPT !.resultJSON = fallback], "step6")
          ELSE Throw(r1, "step6", "SyntaxError")

\* Step 6: parse the result
Step6(r) ==
  LET r1 == Enter(r, "step6")
      result == OutputParser(r.llmResponse)
      resultJSON == JSONParse(result)
  IN IF resultJSON.ok
     THEN Return([r1 EXCEPT !.resultJSON = resultJSON], "step6")
     ELSE Throw(r1, "step6", "SyntaxError")

\* A scan that resumes after the index the previous invocation stopped at
\* (a search position kept outside the function), and finds nothing when
\* no later element matches.
FindResumes(docs, id) ==
  LET I == {i \in 1..Len(docs) :
              i > other.matchedDoc /\ LooseEq(docs[i].element_id, id)}
  IN IF I = {} THEN 0 ELSE CHOOSE i \in I : \A j \in I : i <= j

\* A scan that keeps the last element the callback accepts.
FindLast(docs, id) ==
  LET I == {i \in 1..Len(docs) : LooseEq(docs[i].element_id, id)}
  IN IF I = {} THEN 0 ELSE CHOOSE i \in I : \A j \in I : j <= i

\* docArray.find(doc => doc.metadata.element_id == id): the index of the
\* first element the callback accepts, 0 when it accepts none.
Find(docs, id) ==
  LET I == {i \in 1..Len(docs) : LooseEq(docs[i].element_id, id)}
  IN IF I = {} THEN 0 ELSE CHOOSE i \in I : \A j \in I : i <= j

\* A step 7 that accepts only ids of the retrieved candidates.
Step7CandidatesOnly(r) ==
  LET r1 == Enter(r, "step7")
      docMatchID == GetProp(r.resultJSON, "element_id")
      matchedDoc == Find(r.docArray, docMatchID)
      tableContent == IF matchedDoc = 0 THEN Undefined
                      ELSE r.docArray[matchedDoc].text_as_html
  IN IF \E i \in 1..Len(r.docs) : LooseEq(r.docs[i].element_id, docMatchID)
     THEN Return([r1 EXCEPT !.matchedDoc = matchedDoc,
                            !.tableContext = [tableContent |-> tableContent]],
                 "step7")
     ELSE Throw(r1, "step7", "SelectionUnresolved")

\* Step 7: match the output ID to the document array to source content
Step7(r) ==
  LET r1 == Enter(r, "step7")
      docMatchID == GetProp(r.resultJSON, "element_id")
      matchedDoc == Find(r.docArray, docMatchID)
      tableContent == IF matchedDoc = 0 THEN Undefined
                      ELSE r.docArray[matchedDoc].text_as_html
  IN Return([r1 EXCEPT !.matchedDoc = matchedDoc,
                       !.tableContext = [tableContent |-> tableContent]],
            "step7")

\* Step 8: format the enhancement prompt with the fetched table data
Step8(r) ==
  LET r1 == Enter(r, "step8")
      formatted == Format(htmlFormattingTemplate,
                     [tableContent |-> <<ToText(r.tableContext.tableContent)>>])
  IN IF formatted.ok
     THEN Return([r1 EXCEPT !.htmlPrompt = formatted.text], "step8")
     ELSE Throw(r1, "step8", "MissingValue")

\* Step 9: run through the LLM for better formatted HTML
Step9(r, answer) ==
  LET r1 == [Enter(r, "step9") EXCEPT !.llmCalls = @ + 1]
  IN IF answer.ok
     THEN Return([r1 EXCEPT !.htmlResponse = [content |-> answer.content]], "step9")
     ELSE Throw(r1, "step9", answer.name)

\* Step 10: parse final results
Step10(r) ==
  LET r1 == Enter(r, "step10")
  IN Return([r1 EXCEPT !.result = OutputParser(r.htmlResponse)], "step10")

\* A final step that fills reformatted_content from the source content
\* instead of the model's reply.
FinalEchoesSource(r) ==
  LET r1 == Enter(r, "final")
      jsonResult == JSONParse(r.result)
      echoed == ParsedObject(<< <<"reformatted_content", r.tableContext.tableContent>> >>)
  IN IF jsonResult.ok
     THEN Return([r1 EXCEPT !.jsonResult = echoed], "final")
     ELSE Throw(r1, "final", "SyntaxError")

\* const jsonResult = JSON.parse(result); ...; return jsonResult
Final(r) ==
  LET r1 == Enter(r, "final")
      jsonResult == JSONParse(r.result)
  IN IF jsonResult.ok
     THEN Return([r1 EXCEPT !.jsonResult = jsonResult], "final")
     ELSE Throw(r1, "final", "SyntaxError")

\* ------------------------------------------------------------- actions
RetrieverAnswers ==
  {[ok |-> TRUE, docs |-> d, name |-> ""] : d \in RetrievalResults}
  \cup {[ok |-> FALSE, docs |-> <<>>, name |-> e] : e \in UpstreamErrors}

LLMAnswers(replies) ==
  {[ok |-> TRUE, content |-> c, name |-> ""] : c \in replies}
  \cup {[ok |-> FALSE, content |-> <<>>, name |-> e] : e \in UpstreamErrors}

\* No invocation: what `run` and `other` hold outside a call of reportChain.
IdleRun ==
  [NewRun(<<>>, CHOOSE c \in DocConfigs : TRUE) EXCEPT !.pc = "idle"]

\* No call of pollForResult under way.
NoPoll ==
  [ pc |-> "idle", bucket |-> "", path |-> "", maxRetries |-> 0,
    retries |-> 0,        \* the local `retries`
    checks |-> <<>>,      \* what file(path).exists() answered, call by call
    sleeps |-> 0,         \* pauses of pollingInterval taken
    result |-> "",        \* the string returned
    error |-> "" ]        \* the error thrown

\* No call of uploadUnstructuredDocuments under way.
NoUpload ==
  [ pc |-> "idle", documents |-> <<>>,
    vectors |-> <<>>,     \* the local `vectors`
    i |-> 0,              \* the loop variable
    totalUploaded |-> 0,
    attempts |-> 0,       \* calls of index.upsert
    returned |-> <<>>,    \* the array returned
    error |-> "" ]        \* the error thrown

\* Nothing is being ingested, and the index is as the run finds it.
IngestIdle == poll = NoPoll /\ upload = NoUpload /\ pineconeIndex = <<>>

\* Stubbed clients that have not been asked anything yet.
NoStub == [setup |-> {}, retriever |-> {}, llm |-> {}]

\* No request under way.
NoRequest ==
  [ method |-> "", pc |-> "idle",
    docConfig |-> CHOOSE c \in DocConfigs : TRUE,
    rendered |-> <<>>,       \* res.render calls: <<view, tableContent>>
    nextErr |-> NoError,     \* the error handed to next(err)
    abortedAt |-> "" ]       \* where reportChain stood when the client gave up

\* reportChain called on its own, with no server around it.
Init ==
  /\ \E d \in DocArrays, c \in DocConfigs : run = NewRun(d, c)
  /\ other = IdleRun /\ stub = NoStub
  /\ docArray = <<>> /\ req = NoRequest /\ handled = 0 /\ IngestIdle

DoSetup ==
  /\ run.pc = "setup" /\ \E o \in SetupOutcomes : run' = Setup(run, o)
  /\ UNCHANGED outside
DoStep1 ==
  /\ run.pc = "step1" /\ run' = Step1(run)
  /\ UNCHANGED outside
DoStep2 ==
  /\ run.pc = "step2" /\ \E a \in RetrieverAnswers : run' = Step2(run, a)
  /\ UNCHANGED outside
DoStep3 ==
  /\ run.pc = "step3" /\ run' = Step3(run)
  /\ UNCHANGED outside
DoStep4 ==
  /\ run.pc = "step4" /\ run' = Step4(run)
  /\ UNCHANGED outside
DoStep5 ==
  /\ run.pc = "step5" /\ \E a \in LLMAnswers(SelectionReplies) : run' = Step5(run, a)
  /\ UNCHANGED outside
DoStep6 ==
  /\ run.pc = "step6" /\ run' = Step6(run)
  /\ UNCHANGED outside
DoStep7 ==
  /\ run.pc = "step7" /\ run' = Step7(run)
  /\ UNCHANGED outside
DoStep8 ==
  /\ run.pc = "step8" /\ run' = Step8(run)
  /\ UNCHANGED outside
DoStep9 ==
  /\ run.pc = "step9" /\ \E a \in LLMAnswers(ReformatReplies) : run' = Step9(run, a)
  /\ UNCHANGED outside
DoStep10 ==
  /\ run.pc = "step10" /\ run' = Step10(run)
  /\ UNCHANGED outside
DoFinal ==
  /\ run.pc = "final" /\ run' = Final(run)
  /\ UNCHANGED outside

\* one handler of the invocation `run`
ReportChainStep ==
  \/ DoSetup \/ DoStep1 \/ DoStep2 \/ DoStep3 \/ DoStep4 \/ DoStep5
  \/ DoStep6 \/ DoStep7 \/ DoStep8 \/ DoStep9 \/ DoStep10 \/ DoFinal

Next == ReportChainStep

Spec == Init /\ [][Next]_vars

\* ------------------------------------------------------------- the server
MaxRequests == 2   \* requests the server takes in one behaviour

\* What the bucket holds under docName at the time of a getDocs call.
GcsFiles ==
  { << [element_id |-> Str("e1"), text_as_html |-> Str(TableA)] >>,
    << [element_id |-> Str("e1"), text_as_html |-> Str(TableB)],
       [element_id |-> Str("e2"), text_as_html |-> Str("")] >> }

\* GCSService.getDocuments: the documents of the file, or the error it
\* throws (environment not configured, file not in the bucket).
GetDocsAnswers ==
  {[ok |-> TRUE, docs |-> d, name |-> ""] : d \in GcsFiles}
  \cup {[ok |-> FALSE, docs |-> <<>>, name |-> e] :
          e \in {"GCSConfigMissing", "FileNotFound"}}

\* Bodies of POST /: the four fields as the form sends them, one of them
\* possibly left empty or missing.
Bodies ==
  { [docName |-> Str("hood-10Q.pdf.json"), companyName |-> Str("Robinhood"),
     docType |-> Str("10-Q"), reportType |-> Str("Balance Sheet")],
    [docName |-> Str("hood-10Q.pdf.json"), companyName |-> Str(""),
     docType |-> Str("10-Q"), reportType |-> Str("Balance Sheet")],
    [docName |-> Str("hood-10Q.pdf.json"), companyName |-> Undefined,
     docType |-> Str("10-Q"), reportType |-> Str("Balance Sheet")] }

\* docConfigSchema.parse(body): every field must be a string (z.string()
\* accepts the empty string); otherwise a ZodError is thrown.
SchemaParse(body) ==
  IF \A f \in {"docName", "companyName", "docType", "reportType"} : IsString(body[f])
  THEN [ok |-> TRUE,
        config |-> [docName |-> body.docName[2], companyName |-> body.companyName[2],
                    docType |-> body.docType[2], reportType |-> body.reportType[2]]]
  ELSE [ok |-> FALSE, config |-> NoRequest.docConfig]

\* pushDocs(docs): docArray.push(...docs) on the process-wide array
PushDocs(array, docs) == array \o docs

\* next(err) was called by the controller, which is then done
NextErr(q, step, name) ==
  [q EXCEPT !.pc = "done", !.nextErr = [step |-> step, name |-> name]]

Render(q, view, content) ==
  [q EXCEPT !.rendered = Append(@, <<view, content>>)]

\* A controller that awaits getDocs before it renders anything.
GetReceiveLoadsFirst ==
  /\ req.pc = "idle" /\ handled < MaxRequests
  /\ req' = [NoRequest EXCEPT !.method = "GET", !.pc = "getDocs"]
  /\ handled' = handled + 1
  /\ UNCHANGED <<run, other, stub, docArray, poll, upload, pineconeIndex>>

\* GET /: initializeController renders the index page, then starts getDocs.
GetReceive ==
  /\ req.pc = "idle" /\ handled < MaxRequests
  /\ req' = [Render(NoRequest, "index", Undefined) EXCEPT
               !.method = "GET", !.pc = "getDocs"]
  /\ handled' = handled + 1
  /\ UNCHANGED <<run, other, stub, docArray, poll, upload, pineconeIndex>>

\* GET /: getDocs settles; the documents are pushed onto the process-wide
\* array, or the error goes to next(err).
GetLoad ==
  /\ req.method = "GET" /\ req.pc = "getDocs"
  /\ \E a \in GetDocsAnswers :
       IF a.ok
       THEN /\ docArray' = PushDocs(docArray, a.docs)
            /\ req' = [req EXCEPT !.pc = "done"]
       ELSE /\ docArray' = docArray
            /\ req' = NextErr(req, "getDocs", a.name)
  /\ UNCHANGED <<run, other, stub, handled, poll, upload, pineconeIndex>>

\* POST /: processInputController validates the body, then starts getDocs.
PostReceive ==
  /\ req.pc = "idle" /\ handled < MaxRequests
  /\ \E body \in Bodies :
       LET parsed == SchemaParse(body)
           q == [NoRequest EXCEPT !.method = "POST"]
       IN req' = IF parsed.ok
                 THEN [q EXCEPT !.pc = "getDocs", !.docConfig = parsed.config]
                 ELSE NextErr(q, "docConfigSchema.parse", "ZodError")
  /\ handled' = handled + 1
  /\ UNCHANGED <<run, other, stub, docArray, poll, upload, pineconeIndex>>

\* POST /: getDocs settles; reportChain is called with its documents, or
\* the error goes to next(err).
PostLoad ==
  /\ req.method = "POST" /\ req.pc = "getDocs"
  /\ \E a \in GetDocsAnswers :
       IF a.ok
       THEN /\ run' = NewRun(a.docs, req.docConfig)
            /\ req' = [req EXCEPT !.pc = "reportChain"]
       ELSE /\ run' = run
            /\ req' = NextErr(req, "getDocs", a.name)
  /\ UNCHANGED <<other, stub, docArray, handled, poll, upload, pineconeIndex>>

\* A controller that renders in a finally block: whatever reportChain did.
PostFinishRendersAlways ==
  /\ req.method = "POST" /\ req.pc = "reportChain"
  /\ run.pc \in {"returned", "thrown"}
  /\ req' = LET shown == Render(req, "results",
                                 GetProp(run.jsonResult, "reformatted_content"))
            IN IF run.pc = "thrown"
               THEN NextErr(shown, run.error.step, run.error.name)
               ELSE [shown EXCEPT !.pc = "done"]
  /\ UNCHANGED <<run, other, stub, docArray, handled, poll, upload, pineconeIndex>>

\* POST /: reportChain settles.  Its rejection goes to next(err); of its
\* result, reformatted_content is read (a TypeError on null) and rendered.
PostFinish ==
  /\ req.method = "POST" /\ req.pc = "reportChain"
  /\ run.pc \in {"returned", "thrown"}
  /\ req' = IF run.pc = "thrown"
            THEN NextErr(req, run.error.step, run.error.name)
            ELSE IF run.jsonResult.kind = "null"
            THEN NextErr(req, "processInputController", "TypeError")
            ELSE [Render(req, "results", GetProp(run.jsonResult, "reformatted_content"))
                    EXCEPT !.pc = "done"]
  /\ UNCHANGED <<run, other, stub, docArray, handled, poll, upload, pineconeIndex>>

\* The client closes the connection while the request is being handled.
\* No handler listens for it: only the fact is recorded.
ClientAborts ==
  /\ req.pc \in {"getDocs", "reportChain"} /\ req.abortedAt = ""
  /\ req' = [req EXCEPT !.abortedAt = IF req.pc = "reportChain" THEN run.pc ELSE "getDocs"]
  /\ UNCHANGED <<run, other, stub, docArray, handled, poll, upload, pineconeIndex>>

\* The request is over; the locals of its handler are gone.
EndRequest ==
  /\ req.pc = "done"
  /\ req' = NoRequest /\ run' = IdleRun
  /\ UNCHANGED <<other, stub, docArray, handled, poll, upload, pineconeIndex>>

InitServer ==
  /\ run = IdleRun /\ other = IdleRun /\ stub = NoStub
  /\ docArray = <<>> /\ req = NoRequest /\ handled = 0 /\ IngestIdle

NextServer ==
  \/ GetReceive \/ GetLoad \/ PostReceive \/ PostLoad \/ ReportChainStep
  \/ PostFinish \/ ClientAborts \/ EndRequest

SpecServer == InitServer /\ [][NextServer]_vars

\* ------------------------------------------------- two invocations
\* Answers of the external clients in the specifications with two
\* invocations: a few of each kind, failures included.
SomeSetupOutcomes == {"ok", "UpstreamUnavailable"}

SomeRetrieverAnswers ==
  { [ok |-> TRUE, name |-> "",
     docs |-> << [element_id |-> Str("e1"), filename |-> Str("f.pdf"),
                  text_preview |-> Str("Total Assets 500")] >>],
    [ok |-> TRUE, docs |-> <<>>, name |-> ""],
    [ok |-> FALSE, docs |-> <<>>, name |-> "UpstreamTimeout"] }

SomeSelectionAnswers ==
  { [ok |-> TRUE, content |-> SelectionJSON("e1"), name |-> ""],
    [ok |-> TRUE, content |-> SelectionJSON("e2"), name |-> ""],
    [ok |-> TRUE, content |-> << W("The"), W("answer"), W("is") >> \o SelectionJSON("e1"),
     name |-> ""],
    [ok |-> FALSE, content |-> <<>>, name |-> "UpstreamTimeout"] }

SomeReformatAnswers ==
  { [ok |-> TRUE, content |-> ReformatJSON(TableA), name |-> ""],
    [ok |-> TRUE, content |-> ReformatJSON(""), name |-> ""],
    [ok |-> FALSE, content |-> <<>>, name |-> "UpstreamTimeout"] }

\* Module-level variables shared by every invocation: a handler would
\* read the selection the other invocation parsed last.
ClosureShared(own, peer) ==
  IF \E i \in 1..Len(peer.completed) : peer.completed[i] = "step6"
  THEN [own EXCEPT !.resultJSON = peer.resultJSON]
  ELSE own

\* What the handlers of an invocation read and write: the constants and
\* the intermediate values of that call of reportChain, all declared
\* inside the function; nothing of another invocation.
Closure(own, peer) == own

\* The records one handler can lead to from r, given what the clients may
\* answer.
Successors(r, setups, retrievals, selections, reformats) ==
  CASE r.pc = "setup" -> {Setup(r, o) : o \in setups}
    [] r.pc = "step1" -> {Step1(r)}
    [] r.pc = "step2" -> {Step2(r, a) : a \in retrievals}
    [] r.pc = "step3" -> {Step3(r)}
    [] r.pc = "step4" -> {Step4(r)}
    [] r.pc = "step5" -> {Step5(r, a) : a \in selections}
    [] r.pc = "step6" -> {Step6(r)}
    [] r.pc = "step7" -> {Step7(r)}
    [] r.pc = "step8" -> {Step8(r)}
    [] r.pc = "step9" -> {Step9(r, a) : a \in reformats}
    [] r.pc = "step10" -> {Step10(r)}
    [] r.pc = "final" -> {Final(r)}
    [] OTHER -> {}

SomeSuccessors(r) ==
  Successors(r, SomeSetupOutcomes, SomeRetrieverAnswers,
             SomeSelectionAnswers, SomeReformatAnswers)

\* Two POST requests are being handled: each has called reportChain with
\* the documents it loaded.
InitPair ==
  /\ \E d1 \in GcsFiles, d2 \in GcsFiles, c \in DocConfigs :
       run = NewRun(d1, c) /\ other = NewRun(d2, c)
  /\ stub = NoStub /\ docArray = <<>> /\ req = NoRequest /\ handled = 0 /\ IngestIdle

\* a handler of the first invocation runs
PairRun ==
  /\ run' \in SomeSuccessors(Closure(run, other))
  /\ UNCHANGED outside

\* a handler of the second invocation runs
PairOther ==
  /\ other' \in SomeSuccessors(Closure(other, run))
  /\ UNCHANGED <<run, stub, docArray, req, handled, poll, upload, pineconeIndex>>

NextPair == PairRun \/ PairOther

SpecPair == InitPair /\ [][NextPair]_vars

\* ------------------------------------------- two successive invocations
\* A deterministic stub: asked what it was asked before, it answers what it
\* answered before; asked something new, it may answer anything.
StubAnswers(memo, key, fresh) ==
  IF \E p \in memo : p[1] = key
  THEN {p[2] : p \in {q \in memo : q[1] = key}}
  ELSE fresh

InitTwice ==
  /\ \E d \in GcsFiles, c \in DocConfigs : run = NewRun(d, c)
  /\ other = IdleRun /\ stub = NoStub
  /\ docArray = <<>> /\ req = NoRequest /\ handled = 0 /\ IngestIdle

\* a handler that calls no client
TwiceInternal ==
  /\ run.pc \in {"step1", "step3", "step4", "step6", "step7", "step8", "step10", "final"}
  /\ run' \in SomeSuccessors(run)
  /\ UNCHANGED outside

TwiceSetup ==
  /\ run.pc = "setup"
  /\ \E o \in StubAnswers(stub.setup, "createStore", SomeSetupOutcomes) :
       /\ run' = Setup(run, o)
       /\ stub' = [stub EXCEPT !.setup = @ \cup {<<"createStore", o>>}]
  /\ UNCHANGED <<other, docArray, req, handled, poll, upload, pineconeIndex>>

TwiceRetrieve ==
  /\ run.pc = "step2"
  /\ \E a \in StubAnswers(stub.retriever, run.query, SomeRetrieverAnswers) :
       /\ run' = Step2(run, a)
       /\ stub' = [stub EXCEPT !.retriever = @ \cup {<<run.query, a>>}]
  /\ UNCHANGED <<other, docArray, req, handled, poll, upload, pineconeIndex>>

TwiceSelect ==
  /\ run.pc = "step5"
  /\ \E a \in StubAnswers(stub.llm, run.idPrompt, SomeSelectionAnswers) :
       /\ run' = Step5(run, a)
       /\ stub' = [stub EXCEPT !.llm = @ \cup {<<run.idPrompt, a>>}]
  /\ UNCHANGED <<other, docArray, req, handled, poll, upload, pineconeIndex>>

TwiceReformat ==
  /\ run.pc = "step9"
  /\ \E a \in StubAnswers(stub.llm, run.htmlPrompt, SomeReformatAnswers) :
       /\ run' = Step9(run, a)
       /\ stub' = [stub EXCEPT !.llm = @ \cup {<<run.htmlPrompt, a>>}]
  /\ UNCHANGED <<other, docArray, req, handled, poll, upload, pineconeIndex>>

\* the first invocation has settled: reportChain is called again with the
\* same arguments
StartSecond ==
  /\ run.pc \in {"returned", "thrown"} /\ other = IdleRun
  /\ other' = run
  /\ run' = NewRun(run.docArray, run.docConfig)
  /\ UNCHANGED <<stub, docArray, req, handled, poll, upload, pineconeIndex>>

NextTwice ==
  \/ TwiceInternal \/ TwiceSetup \/ TwiceRetrieve \/ TwiceSelect
  \/ TwiceReformat \/ StartSecond

SpecTwice == InitTwice /\ [][NextTwice]_vars

\* ------------------------------------------- retrieval from a ranked index
MaxMatches == 6   \* most vectors the index ranks for one query

\* What the index ranks for a query, best score first.
Rankings == SeqsUpTo(CandidatePool, MaxMatches)

\* A retriever that hands on every match of the index.
RetrieverUncapped(matches) == matches

\* pineconeStore.asRetriever(5): the k = 5 best matches, in the order the
\* index ranks them.
Retriever(matches) == SubSeq(matches, 1, Min(TopK, Len(matches)))

\* reportChain called on its own, against an index with a ranking of its own.
InitRetrieve ==
  /\ \E d \in GcsFiles, c \in DocConfigs : run = NewRun(d, c)
  /\ other = IdleRun /\ stub = NoStub
  /\ docArray = <<>> /\ req = NoRequest /\ handled = 0 /\ IngestIdle

\* Step 2 against the ranked index; stub.retriever keeps the ranking the
\* index computed for the query.
RetrieveRanked ==
  /\ run.pc = "step2"
  /\ \/ \E m \in Rankings :
          /\ run' = Step2(run, [ok |-> TRUE, docs |-> Retriever(m), name |-> ""])
          /\ stub' = [stub EXCEPT !.retriever = {<<run.query, m>>}]
     \/ \E e \in UpstreamErrors :
          /\ run' = Step2(run, [ok |-> FALSE, docs |-> <<>>, name |-> e])
          /\ stub' = stub
  /\ UNCHANGED <<other, docArray, req, handled, poll, upload, pineconeIndex>>

\* reportChain up to the disambiguation prompt
NextRetrieve == DoSetup \/ DoStep1 \/ RetrieveRanked \/ DoStep3 \/ DoStep4

SpecRetrieve == InitRetrieve /\ [][NextRetrieve]_vars

\* ------------------------------------------------------------- pollForResult
MaxPollRetries == 3   \* largest maxRetries a call is made with

\* this.gcsBucket (the empty string when GCS_BUCKET is not set) and the
\* paths polled
Buckets == {"results", ""}
Paths == {"out/hood-10Q.pdf.json", "x"}

\* the template literal gs://${this.gcsBucket}/${path}
GsPath(bucket, path) == "gs://" \o bucket \o "/" \o path

\* new Error(`Workflow timeout after ${maxRetries} retries`)
WorkflowTimeout(maxRetries) ==
  "Workflow timeout after " \o ToString(maxRetries) \o " retries"

\* A loop that goes round once more: retries++ <= maxRetries
LoopTestInclusive(retries, maxRetries) == retries <= maxRetries

\* the comparison of  while (retries++ < maxRetries)
LoopTest(retries, maxRetries) == retries < maxRetries

\* pollForResult(path, maxRetries) just called: let retries = 0
NewPoll(bucket, path, maxRetries) ==
  [NoPoll EXCEPT !.pc = "test", !.bucket = bucket, !.path = path,
                 !.maxRetries = maxRetries]

InitPoll ==
  /\ \E b \in Buckets, p \in Paths, m \in 0..MaxPollRetries :
       poll = NewPoll(b, p, m)
  /\ upload = NoUpload /\ pineconeIndex = <<>>
  /\ run = IdleRun /\ other = IdleRun /\ stub = NoStub
  /\ docArray = <<>> /\ req = NoRequest /\ handled = 0

\* while (retries++ < maxRetries): the old value is compared, the variable
\* is incremented either way; when the test fails the loop is left and the
\* timeout error is thrown.
PollTest ==
  /\ poll.pc = "test"
  /\ poll' = IF LoopTest(poll.retries, poll.maxRetries)
             THEN [poll EXCEPT !.retries = @ + 1, !.pc = "exists"]
             ELSE [poll EXCEPT !.retries = @ + 1, !.pc = "thrown",
                               !.error = WorkflowTimeout(poll.maxRetries)]
  /\ UNCHANGED <<run, other, stub, docArray, req, handled, upload, pineconeIndex>>

\* await file(path).exists() settles: the file is there (return the gs://
\* path), it is not (go on to the pause), or the call rejects, which
\* nothing in pollForResult catches.
PollExists ==
  /\ poll.pc = "exists"
  /\ \E answer \in {"present", "absent", "StorageError"} :
       LET p1 == [poll EXCEPT !.checks = Append(@, answer)]
       IN poll' = IF answer = "present"
                  THEN [p1 EXCEPT !.pc = "returned",
                                  !.result = GsPath(poll.bucket, poll.path)]
                  ELSE IF answer = "absent"
                  THEN [p1 EXCEPT !.pc = "sleep"]
                  ELSE [p1 EXCEPT !.pc = "thrown", !.error = answer]
  /\ UNCHANGED <<run, other, stub, docArray, req, handled, upload, pineconeIndex>>

\* await new Promise(resolve => setTimeout(resolve, pollingInterval))
PollSleep ==
  /\ poll.pc = "sleep"
  /\ poll' = [poll EXCEPT !.sleeps = @ + 1, !.pc = "test"]
  /\ UNCHANGED <<run, other, stub, docArray, req, handled, upload, pineconeIndex>>

NextPoll == PollTest \/ PollExists \/ PollSleep

\* An awaited promise settles: exists() answers and the timer fires.
SpecPoll == InitPoll /\ [][NextPoll]_vars /\ WF_vars(NextPoll)

\* ------------------------------------------- uploadUnstructuredDocuments
MaxUpload == 21   \* longest documents array uploaded

BatchSize == 10   \* const batchSize = 10

\* The i-th document of an upload (i from 1), whole.
UploadDoc(i) ==
  [ element_id |-> Str("el-" \o ToString(i)),
    embedding |-> Str("vec-" \o ToString(i)),
    pageContent |-> Str("text-" \o ToString(i)) ]

\* What a document of the ingested file may lack.
Defects == {"embedding", "element_id", "pageContent"}

\* The arrays passed to uploadUnstructuredDocuments: n documents, whole
\* (at = 0) or with the document at `at` lacking the field `field`.
UploadInput(n, at, field) ==
  [i \in 1..n |-> IF i = at THEN [UploadDoc(i) EXCEPT ![field] = Undefined]
                            ELSE UploadDoc(i)]

UploadInputs ==
  {UploadInput(n, 0, "embedding") : n \in 0..MaxUpload}
  \cup {UploadInput(n, at, f) : n \in 1..MaxUpload, at \in 1..MaxUpload, f \in Defects}

\* The callback of documents.map for the document at idx (from 0): it
\* throws when the embedding is missing, and when pageContent is not a
\* string (substring of undefined); otherwise it builds the vector.
MakeVector(doc, idx) ==
  IF ~Truthy(doc.embedding)
  THEN [ok |-> FALSE, vector |-> <<>>,
        error |-> "Document at index " \o ToString(idx) \o " is missing embeddings in metadata"]
  ELSE IF ~IsString(doc.pageContent)
  THEN [ok |-> FALSE, vector |-> <<>>, error |-> "TypeError"]
  ELSE [ok |-> TRUE, error |-> "",
        vector |->
          [ id |-> ToText(OrElse(doc.element_id, Str("fallback-id-" \o ToString(idx)))),
            values |-> doc.embedding,
            element_id |-> ToText(OrElse(doc.element_id, Str("unknown-" \o ToString(idx)))),
            text_preview |-> doc.pageContent[2] ] ]

\* A map that leaves out the documents it cannot turn into a vector.
MapVectorsSkipsBad(documents) ==
  LET good == {i \in 1..Len(documents) : MakeVector(documents[i], i - 1).ok}
      nth(k) == CHOOSE i \in good : Cardinality({j \in good : j <= i}) = k
  IN [ok |-> TRUE, error |-> "",
      vectors |-> [k \in 1..Cardinality(good) |->
                     MakeVector(documents[nth(k)], nth(k) - 1).vector]]

\* documents.map(callback): every document in order; the first callback
\* that throws ends the map.
MapVectors(documents) ==
  LET made == [i \in 1..Len(documents) |-> MakeVector(documents[i], i - 1)]
      bad == {i \in 1..Len(documents) : ~made[i].ok}
  IN IF bad = {}
     THEN [ok |-> TRUE, error |-> "",
           vectors |-> [i \in 1..Len(documents) |-> made[i].vector]]
     ELSE [ok |-> FALSE, vectors |-> <<>>,
           error |-> made[CHOOSE i \in bad : \A j \in bad : i <= j].error]

\* A slice that takes one element more.
SliceInclusive(array, start, end) ==
  SubSeq(array, start + 1, Min(end + 1, Len(array)))

\* array.slice(start, end), indices from 0, end excluded
Slice(array, start, end) == SubSeq(array, start + 1, Min(end, Len(array)))

\* uploadUnstructuredDocuments(documents) just called
NewUpload(documents) ==
  [NoUpload EXCEPT !.pc = "map", !.documents = documents]

InitUpload ==
  /\ \E d \in UploadInputs : upload = NewUpload(d)
  /\ poll = NoPoll /\ pineconeIndex = <<>>
  /\ run = IdleRun /\ other = IdleRun /\ stub = NoStub
  /\ docArray = <<>> /\ req = NoRequest /\ handled = 0

\* const vectors = documents.map(...); a throw goes to the catch block,
\* which rethrows it.
UploadPrepare ==
  /\ upload.pc = "map"
  /\ LET mapped == MapVectors(upload.documents)
     IN upload' = IF mapped.ok
                  THEN [upload EXCEPT !.vectors = mapped.vectors, !.i = 0, !.pc = "loop"]
                  ELSE [upload EXCEPT !.pc = "thrown", !.error = mapped.error]
  /\ UNCHANGED <<run, other, stub, docArray, req, handled, poll, pineconeIndex>>

\* A loop that logs a failed upsert and goes on with the next batch.
UploadBatchSkipsFailed ==
  /\ upload.pc = "loop" /\ upload.i < Len(upload.vectors)
  /\ LET batch == Slice(upload.vectors, upload.i, upload.i + BatchSize)
     IN \/ /\ pineconeIndex' = Append(pineconeIndex, batch)
           /\ upload' = [upload EXCEPT !.attempts = @ + 1,
                                        !.totalUploaded = @ + Len(batch),
                                        !.i = @ + BatchSize]
        \/ /\ pineconeIndex' = pineconeIndex
           /\ upload' = [upload EXCEPT !.attempts = @ + 1, !.i = @ + BatchSize]
  /\ UNCHANGED <<run, other, stub, docArray, req, handled, poll>>

\* One turn of the loop: await index.upsert(batch) settles.  A rejection
\* goes to the catch block, which rethrows it; nothing is undone.
UploadBatch ==
  /\ upload.pc = "loop" /\ upload.i < Len(upload.vectors)
  /\ LET batch == Slice(upload.vectors, upload.i, upload.i + BatchSize)
     IN \/ /\ pineconeIndex' = Append(pineconeIndex, batch)
           /\ upload' = [upload EXCEPT !.attempts = @ + 1,
                                        !.totalUploaded = @ + Len(batch),
                                        !.i = @ + BatchSize]
        \/ \E e \in UpstreamErrors :
             /\ pineconeIndex' = pineconeIndex
             /\ upload' = [upload EXCEPT !.attempts = @ + 1,
                                          !.pc = "thrown", !.error = e]
  /\ UNCHANGED <<run, other, stub, docArray, req, handled, poll>>

\* The loop is over: return documents
UploadReturn ==
  /\ upload.pc = "loop" /\ upload.i >= Len(upload.vectors)
  /\ upload' = [upload EXCEPT !.pc = "returned", !.returned = upload.documents]
  /\ UNCHANGED <<run, other, stub, docArray, req, handled, poll, pineconeIndex>>

NextUpload == UploadPrepare \/ UploadBatch \/ UploadReturn

SpecUpload == InitUpload /\ [][NextUpload]_vars

\* ------------------------------------------------------------- properties
InSeq(x, s) == \E i \in 1..Len(s) : s[i] = x

IsPrefix(s, q) == Len(s) <= Len(q) /\ \A i \in 1..Len(s) : s[i] = q[i]

Failed == run.pc = "thrown"
Returned == run.pc = "returned"

\* The stage of the pipeline a handler belongs to.
StageOf(s) ==
  CASE s = "setup" -> "SETUP"
    [] s = "step1" -> "FORMAT_QUERY"
    [] s = "step2" -> "RETRIEVE"
    [] s \in {"step3", "step4", "step5", "step6"} -> "SELECT"
    [] s = "step7" -> "RESOLVE_CONTENT"
    [] s \in {"step8", "step9", "step10", "final"} -> "REFORMAT"
    [] OTHER -> "DONE"

StageOrder ==
  << "SETUP", "FORMAT_QUERY", "RETRIEVE", "SELECT", "RESOLVE_CONTENT", "REFORMAT" >>

Handlers == {Order[i] : i \in 1..(Len(Order) - 1)}

StageEntered(g) == \E i \in 1..Len(run.started) : StageOf(run.started[i]) = g

StageCompleted(g) ==
  \A h \in Handlers : StageOf(h) = g => InSeq(h, run.completed)

\* C1: the stages run in the fixed order FORMAT_QUERY, RETRIEVE, SELECT,
\* RESOLVE_CONTENT, REFORMAT, DONE: the handlers entered so far are an
\* initial part of the list (none skipped, none out of order), a stage is
\* entered only when every handler of every earlier stage has returned, and
\* a result is returned only when every handler of REFORMAT has returned.
C1_StagesInOrder ==
  /\ IsPrefix(run.started, Order)
  /\ \A i \in 1..Len(StageOrder) : \A j \in 1..Len(StageOrder) :
       (i < j /\ StageEntered(StageOrder[j])) => StageCompleted(StageOrder[i])
  /\ Returned => \A g \in {StageOrder[i] : i \in 1..Len(StageOrder)} :
                   StageEntered(g) /\ StageCompleted(g)

\* a run that went through every stage and returned
C1_Witness == Returned /\ Len(run.completed) = 12

\* C2: once a handler has thrown (a timeout of an external call included),
\* the run has ended in an error: it has not returned a result, no handler
\* after the failing one was entered, and the failing one did not return.
C2_FailureAborts ==
  run.raised # NoError =>
    /\ Failed
    /\ run.jsonResult = ParseError
    /\ run.started # <<>>
    /\ run.started[Len(run.started)] = run.raised.step
    /\ ~InSeq(run.raised.step, run.completed)

\* the reformat model call timed out
C2_Witness ==
  run.raised = [step |-> "step9", name |-> "UpstreamTimeout"] /\ Failed

\* C3: when retrieval returns zero candidates the run fails and makes no
\* language-model call.
C3_ZeroCandidatesFail ==
  (InSeq("step2", run.completed) /\ run.docs = <<>>) =>
    (run.llmCalls = 0 /\ ~Returned)

\* C4: when the element_id of the model's reply equals the id of no element
\* of the document array, the reformat stage is not entered and no result
\* is returned.
C4_UnresolvedFails ==
  ( /\ InSeq("step6", run.completed)
    /\ IsString(GetProp(run.resultJSON, "element_id"))
    /\ \A i \in 1..Len(run.docArray) :
         run.docArray[i].element_id # GetProp(run.resultJSON, "element_id") )
  => (~StageEntered("REFORMAT") /\ ~Returned)

\* C5: when the resolved element has an empty or absent text_as_html, the
\* reformat prompt is not rendered and the reformat model is not called.
C5_MissingContentFails ==
  ( /\ InSeq("step7", run.completed)
    /\ run.matchedDoc # 0
    /\ ~Truthy(run.docArray[run.matchedDoc].text_as_html) )
  => (~InSeq("step8", run.started) /\ ~InSeq("step9", run.started))

\* Replies of the disambiguation model that are not JSON texts.
NotJSONSelections ==
  { << W("The"), W("answer"), W("is") >> \o SelectionJSON("e1"),
    << W("fence-json") >> \o SelectionJSON("e1") \o << W("fence") >>,
    << >> }

\* C6: when the disambiguation reply is not valid JSON, the run fails in
\* the parse of step 6 with the parser's error; no selection is made from
\* the candidates, and neither the resolve nor the reformat stage runs.
C6_SelectionParseFailed ==
  (InSeq("step5", run.completed) /\ run.llmResponse.content \in NotJSONSelections) =>
    /\ run.resultJSON = ParseError
    /\ run.matchedDoc = 0
    /\ ~StageEntered("RESOLVE_CONTENT") /\ ~StageEntered("REFORMAT")
    /\ ~Returned
    /\ InSeq("step6", run.started) =>
         (Failed /\ run.error = [step |-> "step6", name |-> "SyntaxError"])

\* prose came back although candidates had been retrieved
C6_Witness ==
  /\ Failed /\ run.raised.step = "step6"
  /\ run.docs # <<>>
  /\ run.llmResponse.content \in NotJSONSelections

\* Replies of the disambiguation model that are JSON without element_id.
SelectionsLackingId ==
  { << P("{"), S("filename"), P(":"), S("f.pdf"), P("}") >>, << W("null") >> }

\* C7: when the disambiguation reply is JSON without element_id, the run
\* fails in the selection stage and no element of the document array is
\* resolved.
C7_MissingIdFails ==
  (InSeq("step6", run.started) /\ run.llmResponse.content \in SelectionsLackingId) =>
    (Failed /\ run.raised.step = "step6" /\ run.matchedDoc = 0)

\* Replies of the reformat model that are not JSON or lack reformatted_content.
BadReformatReplies ==
  { << P("{"), P("}") >>, << W("null") >>,
    << W("Here"), W("is"), W("the"), W("table") >>, << >> }

\* C8: when the reformat reply is not valid JSON or lacks
\* reformatted_content, the run returns no result.
C8_ReformatParseFailed ==
  (InSeq("step9", run.completed) /\ run.htmlResponse.content \in BadReformatReplies) =>
    ~Returned

\* C9: a returned result has an original_content and a reformatted_content,
\* both non-empty strings.
C9_ResultPopulated ==
  Returned =>
    /\ Truthy(GetProp(run.jsonResult, "original_content"))
    /\ Truthy(GetProp(run.jsonResult, "reformatted_content"))

\* C10: the original_content of a returned result is the text_as_html of the
\* element resolved in step 7.
C10_OriginalVerbatim ==
  Returned =>
    /\ run.matchedDoc # 0
    /\ GetProp(run.jsonResult, "original_content")
         = run.docArray[run.matchedDoc].text_as_html

\* The reformatted_content a reply of the reformat model carries, read off
\* the reply itself; undefined for a reply that carries none.
ReformattedIn(reply) ==
  CASE reply = ReformatJSON(TableA) -> Str(TableA)
    [] reply = ReformatJSON("") -> Str("")
    [] reply = << P("{"), S("original_content"), P(":"), S(TableA), P(","),
                  S("reformatted_content"), P(":"), S(TableA), P("}") >> -> Str(TableA)
    [] OTHER -> Undefined

\* C11: the reformatted_content of a returned result is exactly the
\* reformatted_content of the reformat model's reply of that run.
C11_ReformattedFromReply ==
  Returned =>
    GetProp(run.jsonResult, "reformatted_content")
      = ReformattedIn(run.htmlResponse.content)

\* the reply differs from the source content and is what comes back
C11_Witness ==
  /\ Returned
  /\ run.htmlResponse.content = ReformatJSON(TableA)
  /\ run.tableContext.tableContent = Str(TableB)
  /\ GetProp(run.jsonResult, "reformatted_content") = Str(TableA)

\* The elements of the document array that carry exactly the id v.
Carrying(v) == {i \in 1..Len(run.docArray) : run.docArray[i].element_id = v}

\* C12: when several elements of the document array carry the id the model
\* returned, the element resolved, whose content goes into the reformat
\* prompt, is the one of lowest index among them.
C12_FirstMatchWins ==
  LET id == GetProp(run.resultJSON, "element_id")
  IN (InSeq("step7", run.completed) /\ Cardinality(Carrying(id)) >= 2) =>
       /\ run.matchedDoc \in Carrying(id)
       /\ \A j \in Carrying(id) : run.matchedDoc <= j
       /\ run.tableContext.tableContent = run.docArray[run.matchedDoc].text_as_html
       /\ InSeq("step8", run.completed) =>
            run.htmlPrompt[2] = ToText(run.docArray[run.matchedDoc].text_as_html)

\* two elements carry e1 with different contents; the first one's content
\* is in the reformat prompt
C12_Witness ==
  /\ InSeq("step8", run.completed)
  /\ GetProp(run.resultJSON, "element_id") = Str("e1")
  /\ Len(run.docArray) = 2
  /\ run.docArray[1] = [element_id |-> Str("e1"), text_as_html |-> Str(TableB)]
  /\ run.docArray[2] = [element_id |-> Str("e1"), text_as_html |-> Str(TableA)]
  /\ run.htmlPrompt[2] = TableB

\* The id of the reply is a string that no retrieved candidate carries and
\* that some element of the document array carries.
OutsideCandidates ==
  LET id == GetProp(run.resultJSON, "element_id")
  IN /\ InSeq("step6", run.completed)
     /\ IsString(id)
     /\ \A i \in 1..Len(run.docs) : run.docs[i].element_id # id
     /\ Carrying(id) # {}

\* C13: an id outside the retrieved candidates but inside the document
\* array does not fail the run at SELECT or at the resolution: step 7
\* resolves that element and hands its content to the reformat stage.
C13_ResolvesOutsideCandidates ==
  OutsideCandidates =>
    /\ run.raised.step \notin {"step6", "step7"}
    /\ InSeq("step7", run.completed) =>
         /\ run.matchedDoc \in Carrying(GetProp(run.resultJSON, "element_id"))
         /\ run.tableContext.tableContent = run.docArray[run.matchedDoc].text_as_html
         /\ run.pc = "step8" \/ StageEntered("REFORMAT")

\* retrieval returned only e404, the model answered e1, and the content of
\* e1 reached the reformat model
C13_Witness ==
  /\ OutsideCandidates
  /\ Len(run.docs) = 1 /\ run.docs[1].element_id = Str("e404")
  /\ InSeq("step9", run.completed)
  /\ run.htmlPrompt[2] = TableA

\* C14: when a retrieved element's id cannot be resolved in the document
\* array, the run does not complete successfully.
C14_UnresolvableCandidateFails ==
  ( /\ InSeq("step2", run.completed)
    /\ \E i \in 1..Len(run.docs) : Carrying(run.docs[i].element_id) = {} )
  => ~Returned

\* C15: no external call is repeated: the retriever is called once, when
\* step 2 is entered; the model is called once when step 5 is entered and
\* once when step 9 is entered, and never otherwise.
C15_NoRepeatedCalls ==
  /\ run.retrieverCalls = (IF InSeq("step2", run.started) THEN 1 ELSE 0)
  /\ run.llmCalls = (IF InSeq("step5", run.started) THEN 1 ELSE 0)
                    + (IF InSeq("step9", run.started) THEN 1 ELSE 0)

\* the disambiguation call failed and was not issued again
C15_Witness ==
  /\ Failed /\ run.raised.step = "step5"
  /\ run.llmCalls = 1 /\ run.retrieverCalls = 1

\* C16: the error reportChain rejects with is the error the handler threw,
\* unchanged, and a run in which a handler threw returns no result.
C16_ErrorUnchanged ==
  /\ run.raised # NoError => (run.error = run.raised /\ ~Returned)
  /\ run.error # NoError => run.error = run.raised

\* the final JSON.parse threw and its SyntaxError is what the caller gets
C16_Witness ==
  /\ Failed
  /\ run.raised = [step |-> "final", name |-> "SyntaxError"]
  /\ run.error = [step |-> "final", name |-> "SyntaxError"]

\* C17: no process-wide document collection changes while the server
\* handles requests.
C17_NoSharedDocList == [][docArray' = docArray]_vars

\* The run was suspended in an external call (the retrieval, either model
\* call) when the client gave up.
AbortedInFlight == req.abortedAt \in {"step2", "step5", "step9"}

\* C20: a run cancelled at a suspension point emits no result.
C20_CancelledEmitsNothing ==
  AbortedInFlight => (~Returned /\ req.rendered = <<>>)

\* What an invocation received from the clients in handler s, read off
\* its record.
AnswerOf(r, s) ==
  CASE s = "setup" -> IF r.raised.step = s THEN r.raised.name ELSE "ok"
    [] s = "step2" -> IF r.raised.step = s
                      THEN [ok |-> FALSE, docs |-> <<>>, name |-> r.raised.name]
                      ELSE [ok |-> TRUE, docs |-> r.docs, name |-> ""]
    [] s = "step5" -> IF r.raised.step = s
                      THEN [ok |-> FALSE, content |-> <<>>, name |-> r.raised.name]
                      ELSE [ok |-> TRUE, content |-> r.llmResponse.content, name |-> ""]
    [] s = "step9" -> IF r.raised.step = s
                      THEN [ok |-> FALSE, content |-> <<>>, name |-> r.raised.name]
                      ELSE [ok |-> TRUE, content |-> r.htmlResponse.content, name |-> ""]

\* Handler s applied to r0, with the answer the invocation src received.
Apply(r0, s, src) ==
  CASE s = "setup" -> Setup(r0, AnswerOf(src, s))
    [] s = "step1" -> Step1(r0)
    [] s = "step2" -> Step2(r0, AnswerOf(src, s))
    [] s = "step3" -> Step3(r0)
    [] s = "step4" -> Step4(r0)
    [] s = "step5" -> Step5(r0, AnswerOf(src, s))
    [] s = "step6" -> Step6(r0)
    [] s = "step7" -> Step7(r0)
    [] s = "step8" -> Step8(r0)
    [] s = "step9" -> Step9(r0, AnswerOf(src, s))
    [] s = "step10" -> Step10(r0)
    [] s = "final" -> Final(r0)

\* The invocation src run alone: from its own arguments, its first n
\* handlers one after the other, with the answers src received.
RECURSIVE Alone(_, _)
Alone(src, n) ==
  IF n = 0 THEN NewRun(src.docArray, src.docConfig)
  ELSE Apply(Alone(src, n - 1), Order[n], src)

\* C18: whatever the interleaving of two invocations, each one stands
\* where it would stand had it run alone with the answers it received:
\* same query, candidates, selection, content, result or error.
C18_Isolated ==
  /\ run = Alone(run, Len(run.started))
  /\ other = Alone(other, Len(other.started))

\* both invocations are past their selection, with different selections,
\* when the first resolves its own
C18_Witness ==
  /\ InSeq("step7", run.completed) /\ other.pc = "step7"
  /\ run.resultJSON # other.resultJSON
  /\ run.docArray # other.docArray
  /\ run.matchedDoc = 1

\* What the caller of reportChain gets.
Outcome(r) == [pc |-> r.pc, result |-> r.jsonResult, error |-> r.error]

\* C19: with deterministic stubbed clients, a second invocation with the
\* same document array and config ends as the first did: the same result,
\* or the same error.
C19_SameOutcomeTwice ==
  (other # IdleRun /\ run.pc \in {"returned", "thrown"}) =>
    Outcome(run) = Outcome(other)

\* both invocations returned the reformatted table
C19_Witness ==
  /\ other.pc = "returned" /\ Returned
  /\ GetProp(run.jsonResult, "reformatted_content") = Str(TableA)
  /\ run.llmCalls = 2

\* C21: a config with a missing or empty required field is rejected before
\* any retrieval or model call: an invocation of reportChain whose config
\* has an empty field calls neither the retriever nor the model, and does
\* not return a result.
ConfigFields == {"docName", "companyName", "docType", "reportType"}

C21_InvalidConfigRejected ==
  (run.pc # "idle" /\ \E f \in ConfigFields : run.docConfig[f] = "")
    => (run.retrieverCalls = 0 /\ run.llmCalls = 0 /\ ~Returned)

\* C22: the candidates handed to the selector are at most topK = 5 and keep
\* the order of the index; the disambiguation prompt holds exactly one block
\* per candidate, in that order.
\* the positions of `piece` in the text t, in increasing order
PositionsOf(t, piece) ==
  LET I == {i \in 1..Len(t) : t[i] = piece}
  IN [k \in 1..Cardinality(I) |->
        CHOOSE i \in I : Cardinality({j \in I : j <= i}) = k]

\* what follows each occurrence of `piece` in t
Following(t, piece) ==
  LET at == PositionsOf(t, piece) IN [k \in 1..Len(at) |-> t[at[k] + 1]]

C22_CandidatesInOrder ==
  /\ Len(run.docs) <= TopK
  /\ \A p \in stub.retriever :
       InSeq("step2", run.completed) =>
         /\ IsPrefix(run.docs, p[2])
         /\ Len(run.docs) = Min(TopK, Len(p[2]))
  /\ InSeq("step4", run.completed) =>
       /\ Following(run.idPrompt, "Document ") =
            [i \in 1..Len(run.docs) |-> ToString(i)]
       /\ Following(run.idPrompt, ": - Element ID: ") =
            [i \in 1..Len(run.docs) |->
               IF Truthy(run.docs[i].element_id)
               THEN run.docs[i].element_id[2] ELSE "unknown"]
       /\ Following(run.idPrompt, " - Content snippet: ") =
            [i \in 1..Len(run.docs) |-> ToText(run.docs[i].text_preview)]

\* the index ranks more than topK matches, not all alike, and the prompt
\* has been built
C22_Witness ==
  /\ run.pc = "step5"
  /\ \E p \in stub.retriever : Len(p[2]) > TopK
  /\ Len(run.docs) = TopK
  /\ run.docs[1].element_id = Str("e404") /\ run.docs[2].element_id = Undefined
  /\ run.docs[TopK].element_id = Str("e1")

\* C23: every maximal numeric token of the raw content is present,
\* unchanged, in the reformatted content a successful run returns.
\* the maximal numeric tokens of the texts the model draws
NumericTokens(text) ==
  IF text = TableA THEN {"500"} ELSE IF text = TableB THEN {"42"} ELSE {}

C23_NumbersPreserved ==
  Returned =>
    LET raw == run.tableContext.tableContent
        out == GetProp(run.jsonResult, "reformatted_content")
    IN IsString(raw) =>
         \A n \in NumericTokens(raw[2]) :
           IsString(out) /\ n \in NumericTokens(out[2])

\* C24: pollForResult terminates after at most maxRetries existence
\* checks; it returns gs://<bucket>/<path> at the first check that finds the
\* file, and throws the workflow timeout exactly when maxRetries checks all
\* reported absence (none at all when maxRetries = 0).
PollDone == poll.pc \in {"returned", "thrown"}

AllAbsent(checks) == \A i \in 1..Len(checks) : checks[i] = "absent"

PollSafe ==
  /\ Len(poll.checks) <= poll.maxRetries
  /\ InSeq("present", poll.checks) =>
       /\ poll.pc = "returned"
       /\ poll.result = "gs://" \o poll.bucket \o "/" \o poll.path
       /\ AllAbsent(SubSeq(poll.checks, 1, Len(poll.checks) - 1))
  /\ poll.pc = "returned" => poll.checks[Len(poll.checks)] = "present"
  /\ PollDone =>
       ( (poll.pc = "thrown" /\ poll.error = WorkflowTimeout(poll.maxRetries))
         <=> (Len(poll.checks) = poll.maxRetries /\ AllAbsent(poll.checks)) )

C24_PollTerminates == []PollSafe /\ <>PollDone

\* the timeout after several checks that all found nothing
C24_Witness ==
  /\ poll.pc = "thrown" /\ poll.maxRetries >= 2
  /\ Len(poll.checks) = poll.maxRetries /\ AllAbsent(poll.checks)
  /\ poll.error = WorkflowTimeout(poll.maxRetries)

\* C25: a request handled by processInputController ends in exactly one of
\* res.render('results') and next(err); the view is rendered only once
\* validation, getDocs and reportChain have succeeded, in that order, and
\* reportChain is not invoked when validation or getDocs fails.
Invoked == run.pc # "idle"

C25_OneOutcome ==
  req.method = "POST" =>
    /\ req.pc = "done" <=> (req.rendered # <<>> \/ req.nextErr # NoError)
    /\ ~(req.rendered # <<>> /\ req.nextErr # NoError)
    /\ Len(req.rendered) <= 1
    /\ req.rendered # <<>> =>
         /\ req.rendered[1][1] = "results"
         /\ run.pc = "returned"
    /\ Invoked =>
         /\ req.pc \in {"reportChain", "done"}
         /\ run.docConfig = req.docConfig
         /\ run.docArray \in GcsFiles
    /\ req.nextErr.step \in {"docConfigSchema.parse", "getDocs"} => ~Invoked
    /\ req.pc = "getDocs" => ~Invoked

\* a request that ended with the results view
C25_Witness ==
  /\ req.method = "POST" /\ req.pc = "done"
  /\ req.rendered = << <<"results", Str(TableA)>> >>
  /\ req.nextErr = NoError

\* C26: initializeController renders the index page before the documents
\* are loaded; pushDocs appends to the global list only when getDocs has
\* succeeded; when getDocs fails, next(err) is called on a request whose
\* response has already been rendered.
IndexRendered == req.rendered = << <<"index", Undefined>> >>

GetSettles ==
  /\ req.method = "GET" /\ req.pc = "getDocs" /\ req'.pc = "done"

C26_RenderBeforeLoad ==
  /\ [](req.method = "GET" => IndexRendered)
  /\ [][ /\ docArray' # docArray =>
            /\ GetSettles /\ req'.nextErr = NoError
            /\ \E d \in GcsFiles : docArray' = docArray \o d
         /\ GetSettles =>
            \/ docArray' # docArray /\ req'.nextErr = NoError
            \/ /\ docArray' = docArray
               /\ req'.nextErr.step = "getDocs"
               /\ req'.rendered = << <<"index", Undefined>> >> ]_vars

\* getDocs failed: the error is handed on, the index page is out already
C26_Witness ==
  /\ req.method = "GET" /\ req.pc = "done"
  /\ req.nextErr.step = "getDocs" /\ IndexRendered

\* the vectors of the index, in the order they were upserted
RECURSIVE Flatten(_)
Flatten(batches) ==
  IF batches = <<>> THEN <<>> ELSE Head(batches) \o Flatten(Tail(batches))

\* the vector that carries document i (from 1) of the upload
Carries(vector, i) ==
  LET doc == upload.documents[i]
  IN /\ vector.values = doc.embedding
     /\ vector.id = IF doc.element_id = Undefined
                    THEN "fallback-id-" \o ToString(i - 1)
                    ELSE doc.element_id[2]

\* C27: when uploadUnstructuredDocuments completes for n documents, every
\* document's vector has been upserted exactly once, in document order, in
\* ceil(n/10) batches of at most 10 vectors (all but the last of exactly
\* 10), and the documents array is returned.
C27_AllUpsertedInBatches ==
  upload.pc = "returned" =>
    LET n == Len(upload.documents)
        sent == Flatten(pineconeIndex)
        batches == Len(pineconeIndex)
    IN /\ Len(sent) = n
       /\ \A i \in 1..n : Carries(sent[i], i)
       /\ batches = (n + 9) \div 10
       /\ \A k \in 1..batches :
            /\ Len(pineconeIndex[k]) <= 10 /\ Len(pineconeIndex[k]) >= 1
            /\ k < batches => Len(pineconeIndex[k]) = 10
       /\ upload.attempts = batches
       /\ upload.returned = upload.documents

\* an upload of three batches, the last one short, a fallback id in it
C27_Witness ==
  /\ upload.pc = "returned" /\ Len(upload.documents) = 21
  /\ Len(pineconeIndex) = 3 /\ Len(pineconeIndex[3]) = 1
  /\ upload.documents[21].element_id = Undefined

\* C28: if any document lacks an embedding, the call fails before any
\* upsert is issued: no vector of any document reaches the index.
LacksEmbedding ==
  \E i \in 1..Len(upload.documents) : upload.documents[i].embedding = Undefined

C28_MissingEmbeddingUpsertsNothing ==
  LacksEmbedding =>
    /\ pineconeIndex = <<>> /\ upload.attempts = 0
    /\ upload.pc \in {"map", "thrown"}
    /\ upload.pc = "thrown" => upload.error \notin UpstreamErrors \cup {""}

\* the faulty document comes after a full batch of sound ones
C28_Witness ==
  /\ upload.pc = "thrown" /\ Len(upload.documents) >= BatchSize + 2
  /\ upload.documents[BatchSize + 2].embedding = Undefined
  /\ pineconeIndex = <<>>

\* C29: if an upsert of batch k fails, the error is rethrown, no batch
\* after k is attempted and the batches before k remain upserted: the index
\* holds a strict prefix of the vectors.
UpsertFailed == upload.attempts > Len(pineconeIndex)

C29_FailedBatchStops ==
  /\ [](UpsertFailed =>
          /\ upload.attempts = Len(pineconeIndex) + 1
          /\ upload.pc = "thrown" /\ upload.error \in UpstreamErrors
          /\ LET sent == Flatten(pineconeIndex)
             IN /\ Len(sent) = 10 * (upload.attempts - 1)
                /\ Len(sent) < Len(upload.documents)
                /\ \A i \in 1..Len(sent) : Carries(sent[i], i))
  /\ [][upload.pc = "thrown" =>
          (upload' = upload /\ pineconeIndex' = pineconeIndex)]_vars

\* the third batch failed: two batches stay in the index
C29_Witness ==
  /\ upload.pc = "thrown" /\ upload.attempts = 3 /\ Len(pineconeIndex) = 2
====
